---- MODULE Spec2Model ----
(***************************************************************************)
(* The AI personal assistant workflow: route_query -> execute_tools, with  *)
(* the three handlers create_calendar_event (and its fallback               *)
(* simple_event_parser), list_calendar_events and send_email.               *)
(*                                                                          *)
(* Two variants of the workflow live in the repository and both are         *)
(* modelled; the variable `variant` says which one serves the request:      *)
(*   "main_code"      src/main_code.py                                      *)
(*   "agent_manager"  src/agent_manager.py                                  *)
(*                                                                          *)
(* A query is a sequence of lower-case tokens (words, numbers, one email    *)
(* address).  `phrase in query.lower()` is a search for the phrase's words  *)
(* among the tokens, a regular expression is a search for the token         *)
(* pattern it describes.  A Python string built by the code is a sequence   *)
(* of fragments; the empty string is the empty sequence.  A datetime is a   *)
(* number of minutes counted from 00:00 of the current day.                 *)
(***************************************************************************)
EXTENDS Integers, Sequences, FiniteSets, TLC

VARIABLES variant, query, pc, actions, final_response, responses, idx,
          calls, event_details, drafts, listings, mails, result, escaped,
          inflight, route_content

vars == <<variant, query, pc, actions, final_response, responses, idx,
          calls, event_details, drafts, listings, mails, result, escaped, inflight,
          route_content>>

----------------------------------------------------------------------------
(* Bounds of the model *)

\* longest "agents" array the LLM returns in the routing stage
MaxAgents == 2
\* largest hour written in an "at <h> am/pm" or "from <h> .. to <h> .." clause
MaxQueryHour == 12

----------------------------------------------------------------------------
(* Tokens and queries *)

W(s) == [k |-> "w", w |-> s, h |-> 0, hasMin |-> FALSE, m |-> 0]
N(hh) == [k |-> "n", w |-> "", h |-> hh, hasMin |-> FALSE, m |-> 0]
NM(hh, mm) == [k |-> "n", w |-> "", h |-> hh, hasMin |-> TRUE, m |-> mm]

\* a syntactically valid address of the vocabulary
Address == "a@b.com"

\* a second valid address, for queries that hold two
OtherAddress == "c@d.org"
Addresses == {Address, OtherAddress}

\* The words of the vocabulary that contain `s` as a substring.
WordsContaining(s) ==
    CASE s = "to"    -> {"to", "tomorrow", "today"}
      [] s = "at"    -> {"at"}
      [] s = "from"  -> {"from"}
      [] s = "pm"    -> {"pm"}
      [] s = "event" -> {"event", "events"}
      [] s = "email" -> {"email"}
      [] s = "@"     -> Addresses
      [] OTHER       -> {s}

\* `s in query.lower()` for a phrase of one word
Has(q, s) == \E i \in 1..Len(q) : q[i].k = "w" /\ q[i].w \in WordsContaining(s)

\* `"a b" in query.lower()` for a phrase of two words
Has2(q, a, b) ==
    \E i \in 1..(Len(q) - 1) :
        /\ q[i].k = "w" /\ q[i].w = a
        /\ q[i + 1].k = "w" /\ q[i + 1].w = b

IsWord(t, s) == t.k = "w" /\ t.w = s
IsMeridiem(t) == t.k = "w" /\ t.w \in {"am", "pm"}
IsNum(t) == t.k = "n"
IsAddress(t) == t.k = "w" /\ t.w \in Addresses

QueryHours == 0..MaxQueryHour
Meridiems == {"am", "pm"}

AtClauses ==
    {<<W("at"), N(hh), W(mer)>> : hh \in QueryHours, mer \in Meridiems}
    \cup {<<W("at"), NM(2, 30), W("pm")>>}

RangeClause(a, ma, b, mb) == <<W("from"), a, W(ma), W("to"), b, W(mb)>>

RangeClauses ==
    {RangeClause(N(hh), mer, N(hh), mer) : hh \in QueryHours, mer \in Meridiems}
    \cup {RangeClause(N(4), ma, N(6), mb) : ma \in Meridiems, mb \in Meridiems}
    \cup {RangeClause(N(6), "pm", N(4), "pm"), RangeClause(N(10), "pm", N(1), "am"),
          RangeClause(NM(4, 30), "pm", NM(6, 30), "pm")}

RouteHeads ==
    { <<W("kickoff")>>,
      <<W("schedule"), W("kickoff")>>,
      <<W("book"), W("kickoff")>>,
      <<W("list"), W("events")>>,
      <<W("show"), W("events")>>,
      <<W("send"), W("email")>>,
      <<W("meeting"), W("with"), W("john")>>,
      <<W("schedule"), W("list"), W("events")>>,
      <<W("show"), W("upcoming"), W("events")>>,
      <<W("show"), W("my"), W("next"), N(5), W("events")>>,
      <<W("list"), N(0), W("events")>>,
      <<W("show"), W("meeting"), W("with"), W("john")>>,
      <<W("send"), W("email"), W("meeting"), W("with"), W("john")>> }

RouteQueries ==
    {hd \o tl : hd \in RouteHeads, tl \in {<<>>, <<W("to"), W(Address)>>}}
    \cup {<<W("send"), W("email"), W("to"), W("john")>>,
          <<W("contact"), W("john"), W("to"), W(Address)>>,
          <<W("send"), W("email"), W("to"), W(OtherAddress), W(Address)>>,
          <<W("show"), W("next"), W("few"), N(5), W("events")>>}

\* the time clauses every variant is given
CoreClauses ==
    {<<W("at"), N(2), W("pm")>>, <<W("at"), N(11), W("pm")>>,
     RangeClause(N(4), "pm", N(6), "pm"), RangeClause(N(6), "pm", N(4), "pm"),
     RangeClause(NM(4, 30), "pm", NM(6, 30), "pm")}

CoreTimeQueries ==
    {<<W("schedule"), W("kickoff")>> \o cl : cl \in CoreClauses}
    \cup {<<W("schedule"), W("a"), W("meeting"), W("with"), W("john"), W("tomorrow"),
            W("at"), N(2), W("pm")>>}

TimeQueries ==
    CoreTimeQueries
    \cup {<<W("schedule"), W("kickoff")>> \o cl : cl \in AtClauses \cup RangeClauses}
    \cup {<<W("schedule"), W("kickoff"), W("tomorrow")>> \o cl :
            cl \in {<<>>, <<W("at"), N(2), W("pm")>>}}

\* the queries given to agent_manager.py, which sends every query without
\* an address or an email keyword to the LLM
AgentManagerQueries ==
    {hd \o <<W("to"), W(Address)>> : hd \in RouteHeads}
    \cup {<<W("kickoff")>>,
          <<W("send"), W("email")>>,
          <<W("send"), W("email"), W("to"), W("john")>>,
          <<W("send"), W("email"), W("to"), W(OtherAddress), W(Address)>>,
          <<W("schedule"), W("kickoff")>> \o RangeClause(N(4), "pm", N(6), "pm")}

\* The requests served.  main_code.py routes "schedule" by keyword and has
\* the fallback parser, so the clauses over every hour go to it alone.
Requests ==
    {<<"main_code", q>> : q \in RouteQueries \cup TimeQueries}
    \cup {<<"agent_manager", q>> : q \in AgentManagerQueries}

----------------------------------------------------------------------------
(* Python values held by state["actions"] *)

ListVal(s) == [t |-> "list", items |-> s, n |-> 0]
\* a string is iterated character by character
StrVal(chars) == [t |-> "str", items |-> chars, n |-> 0]
IntVal(i) == [t |-> "int", items |-> <<>>, n |-> i]
Null == [t |-> "null", items |-> <<>>, n |-> 0]

\* `if not state["actions"]` tests the value's truth
Truthy(a) ==
    CASE a.t \in {"list", "str"} -> a.items # <<>>
      [] a.t = "int" -> a.n # 0
      [] OTHER -> FALSE

\* `for action in state["actions"]` raises TypeError on an int or None
Iterable(a) == a.t \in {"list", "str"}

KnownActions == {"calendar_create", "calendar_list", "email"}
AgentEntries == KnownActions \cup {"bogus"}
AgentLists == UNION {[1..n -> AgentEntries] : n \in 0..MaxAgents}

AgentsValues ==
    {ListVal(s) : s \in AgentLists}
    \cup {StrVal(<<"e", "m", "a", "i", "l">>), StrVal(<<>>), IntVal(5), IntVal(0), Null}

\* What the routing completion can be: the call raises, or its content is
\* None, "", a JSON object with or without "agents", JSON that is no object,
\* or invalid JSON holding a parsable / unparsable "agents": [...] fragment,
\* holding some other bracketed array, or holding nothing of use.
RouteCompletions ==
    {[t |-> "raise", v |-> Null], [t |-> "none", v |-> Null],
     [t |-> "empty", v |-> Null], [t |-> "obj_noagents", v |-> Null],
     [t |-> "nonobj", v |-> Null], [t |-> "frag_bad", v |-> Null],
     [t |-> "garbage", v |-> Null]}
    \cup {[t |-> "obj", v |-> a] : a \in AgentsValues}
    \cup {[t |-> tt, v |-> ListVal(<<e>>)] : tt \in {"frag", "array"}, e \in AgentEntries}
    \cup {[t |-> "array", v |-> ListVal(<<>>)]}

DefaultAgents == ListVal(<<"calendar_list">>)

Parsed(kind, has, a) == [k |-> kind, has |-> has, agents |-> a]
ParsedDefault == Parsed("obj", TRUE, DefaultAgents)

\* a parse that hands back unparsable text as it is
safe_json_parse_NoDefault(c) ==
    IF c.t = "obj" THEN Parsed("obj", TRUE, c.v) ELSE Parsed("nonobj", FALSE, Null)

\* safe_json_parse(text, default={"agents": ["calendar_list"]}) of main_code.py
safe_json_parse_main(c) ==
    CASE c.t \in {"none", "empty"} -> ParsedDefault
      [] c.t = "obj" -> Parsed("obj", TRUE, c.v)
      [] c.t = "obj_noagents" -> Parsed("obj", FALSE, Null)
      [] c.t = "nonobj" -> Parsed("nonobj", FALSE, Null)
      [] c.t \in {"frag", "array"} -> Parsed("obj", TRUE, c.v)
      [] OTHER -> ParsedDefault

\* safe_json_parse of agent_manager.py: json.loads(None) raises TypeError,
\* which is not caught here; only the "agents": [...] fragment is salvaged
safe_json_parse_am(c) ==
    CASE c.t = "none" -> Parsed("raise", FALSE, Null)
      [] c.t = "obj" -> Parsed("obj", TRUE, c.v)
      [] c.t = "obj_noagents" -> Parsed("obj", FALSE, Null)
      [] c.t = "nonobj" -> Parsed("nonobj", FALSE, Null)
      [] c.t = "frag" -> Parsed("obj", TRUE, c.v)
      [] OTHER -> ParsedDefault

----------------------------------------------------------------------------
(* route_query *)

\* re.search(r'[a-zA-Z0-9._%+-]+@[a-zA-Z0-9.-]+\.[a-zA-Z]{2,}', query)
HasEmailAddress(q) == \E i \in 1..Len(q) : IsAddress(q[i])

\* the last match of the address pattern
LastAddress(q) ==
    q[CHOOSE i \in 1..Len(q) :
        IsAddress(q[i]) /\ \A j \in (i + 1)..Len(q) : ~IsAddress(q[j])].w

\* first match of the address pattern
FirstAddress(q) ==
    q[CHOOSE i \in 1..Len(q) :
        IsAddress(q[i]) /\ \A j \in 1..(i - 1) : ~IsAddress(q[j])].w

CreationKeywords(q) ==
    \/ Has(q, "schedule")
    \/ Has2(q, "create", "event")
    \/ \E i \in 1..(Len(q) - 2) :
          IsWord(q[i], "add") /\ IsWord(q[i + 1], "to") /\ IsWord(q[i + 2], "calendar")
    \/ Has(q, "book")

ListingKeywords(q) ==
    \/ Has(q, "list")
    \/ Has(q, "show")
    \/ Has2(q, "upcoming", "events")
    \/ Has2(q, "my", "events")
    \/ Has2(q, "what", "events")

EmailKeywordsMain(q) ==
    \/ Has2(q, "send", "email")
    \/ Has2(q, "email", "to")
    \/ Has2(q, "write", "email")
    \/ Has2(q, "compose", "email")

\* r'(meeting|appointment|call|interview)\s+(?:with|on)\s+'
MeetingWithPattern(q) ==
    \E i \in 1..(Len(q) - 2) :
        /\ q[i].k = "w" /\ q[i].w \in {"meeting", "appointment", "call", "interview"}
        /\ q[i + 1].k = "w" /\ q[i + 1].w \in {"with", "on"}

\* r'what.*calendar' or r'(today|tomorrow|this week).*events'
CalendarQuestionPattern(q) ==
    \/ \E i \in 1..Len(q) : \E j \in (i + 1)..Len(q) :
          IsWord(q[i], "what") /\ IsWord(q[j], "calendar")
    \/ \E i \in 1..Len(q) : \E j \in (i + 1)..Len(q) :
          /\ q[i].k = "w" /\ q[i].w \in {"today", "tomorrow"}
          /\ IsWord(q[j], "events")

\* r'(contact|message|reach out to)\s+.+@.+\..+'
ContactPattern(q) ==
    \E i \in 1..Len(q) : \E j \in (i + 1)..Len(q) :
        /\ q[i].k = "w" /\ q[i].w \in {"contact", "message"}
        /\ IsAddress(q[j])

EmailKeywordsAM(q) ==
    \/ Has2(q, "send", "email")
    \/ Has2(q, "compose", "email")
    \/ Has2(q, "write", "email")
    \/ Has2(q, "mail", "to")
    \/ Has2(q, "email", "to")

\* the last lines of route_query in main_code.py
KeywordGuess(q) ==
    IF Has(q, "schedule") \/ Has(q, "meeting") \/ Has(q, "event")
    THEN ListVal(<<"calendar_create">>)
    ELSE IF Has(q, "email") \/ Has(q, "@")
         THEN ListVal(<<"email">>)
         ELSE ListVal(<<"calendar_list">>)

\* a collaborator call: the operation, the number of the action that made
\* it (0: the route stage) and how it ended
Call(op, at, out) == [op |-> op, at |-> at, out |-> out]
Got(b) == IF b THEN "ok" ELSE "none"

\* a request that is sent again when it raised
Attempt_Retried(op, at, out) ==
    IF out = "raise" THEN <<Call(op, at, out), Call(op, at, out)>> ELSE <<Call(op, at, out)>>

\* one `.execute()` of a calendar or gmail request: the calls it adds
Attempt(op, at, out) == <<Call(op, at, out)>>
Answered(c) == IF c.t = "raise" THEN "raise" ELSE "ok"

\* The outcome of a stage or handler: what it wrote and the collaborator
\* calls it made.  fr is the final_response it set, setsFr whether it set one.
Routed(a, setsFr, fr, cs) == [actions |-> a, setsFr |-> setsFr, fr |-> fr, calls |-> cs]

\* route_query of main_code.py; groq: get_groq_client() returned a client,
\* c: the completion it is given if it asks for one
route_query_main(q, groq, c) ==
    IF CreationKeywords(q) THEN Routed(ListVal(<<"calendar_create">>), FALSE, <<>>, <<>>)
    ELSE IF ListingKeywords(q) THEN Routed(ListVal(<<"calendar_list">>), FALSE, <<>>, <<>>)
    ELSE IF EmailKeywordsMain(q) THEN Routed(ListVal(<<"email">>), FALSE, <<>>, <<>>)
    ELSE IF MeetingWithPattern(q) THEN Routed(ListVal(<<"calendar_create">>), FALSE, <<>>, <<>>)
    ELSE IF CalendarQuestionPattern(q) THEN Routed(ListVal(<<"calendar_list">>), FALSE, <<>>, <<>>)
    ELSE IF ContactPattern(q) THEN Routed(ListVal(<<"email">>), FALSE, <<>>, <<>>)
    ELSE IF ~groq
         THEN Routed(KeywordGuess(q), FALSE, <<>>, <<Call("groq_client", 0, Got(groq))>>)
    ELSE LET cs == <<Call("groq_client", 0, "ok"), Call("llm", 0, Answered(c))>>
             p == safe_json_parse_main(c)
         IN  IF c.t = "raise" \/ p.k # "obj"
             THEN Routed(KeywordGuess(q), FALSE, <<>>, cs)
             ELSE Routed(IF p.has THEN p.agents ELSE DefaultAgents, FALSE, <<>>, cs)

\* route_query of agent_manager.py
route_query_am(q, groq, c) ==
    IF HasEmailAddress(q) THEN Routed(ListVal(<<"email">>), FALSE, <<>>, <<>>)
    ELSE IF EmailKeywordsAM(q) THEN Routed(ListVal(<<"email">>), FALSE, <<>>, <<>>)
    ELSE IF ~groq
         THEN Routed(ListVal(<<>>), TRUE, <<"X Error initializing Groq client">>,
                     <<Call("groq_client", 0, Got(groq))>>)
    ELSE LET cs == <<Call("groq_client", 0, "ok"), Call("llm", 0, Answered(c))>>
             p == safe_json_parse_am(c)
         IN  IF c.t = "raise" \/ p.k # "obj"
             THEN Routed(DefaultAgents, TRUE, <<"X Error determining required agents">>, cs)
             ELSE Routed(IF p.has THEN p.agents ELSE DefaultAgents, FALSE, <<>>, cs)

route_query(v, q, groq, c) ==
    IF v = "main_code" THEN route_query_main(q, groq, c) ELSE route_query_am(q, groq, c)

----------------------------------------------------------------------------
(* Collaborators' behaviours *)

\* get_google_credentials(): a path, None, or an exception (from it or from
\* Credentials.from_authorized_user_file / build that use the path)
CredsOutcomes(v) == IF v = "main_code" THEN {"ok", "none", "raise"} ELSE {"ok", "raise"}

\* a calendar / gmail request .execute()
ApiOutcomes == {"ok", "raise"}

\* events().list(...).execute(): it raises, or returns n items
ListOutcomes ==
    {[t |-> "raise", n |-> 0]} \cup {[t |-> "ok", n |-> k] : k \in {0, 10, 11}}

Absent == [t |-> "absent", h |-> 0, m |-> 0]
Empty == [t |-> "empty", h |-> 0, m |-> 0]
Malformed == [t |-> "bad", h |-> 0, m |-> 0]
Time(hh, mm) == [t |-> "ok", h |-> hh, m |-> mm]

LlmStartTimes == {Time(hh, 0) : hh \in {0, 9, 14, 16, 19, 23}}

LlmEndTimes ==
    {Absent, Empty, Malformed} \cup {Time(16, 0), Time(17, 0), Time(18, 0)}

\* the day the LLM names in "date", counted from today
LlmDay == 1

EventObj(date, st, en, summary) ==
    [t |-> "obj", date |-> date, start |-> st, end |-> en, summary |-> summary]

EventNoObj(tt) == [t |-> tt, date |-> "absent", start |-> Absent, end |-> Absent,
                   summary |-> FALSE]

\* What the event-extraction completion can be: the call raises, or its
\* content is None, invalid JSON, JSON that is no object, or an object whose
\* date / start_time / end_time / summary are present, missing or malformed.
EventCompletions ==
    {EventNoObj(tt) : tt \in {"raise", "none", "invalid", "nonobj"}}
    \cup {EventObj("ok", st, en, TRUE) : st \in LlmStartTimes, en \in LlmEndTimes}
    \cup {EventObj(d, Time(9, 0), Time(10, 0), TRUE) : d \in {"absent", "bad"}}
    \cup {EventObj("ok", st, Time(10, 0), TRUE) : st \in {Absent, Malformed}}
    \cup {EventObj("ok", Time(9, 0), Time(10, 0), FALSE)}

----------------------------------------------------------------------------
(* create_calendar_event and simple_event_parser *)

MinOf(S) == CHOOSE x \in S : \A y \in S : x <= y

\* a handler's outcome: the string it returns, the collaborator calls it
\* made, the event bodies it passed to calendar.events().insert, the
\* listings it asked for and the messages it passed to gmail send
Outcome(resp, cs, ds, ls, ms) ==
    [resp |-> resp, calls |-> cs, details |-> <<>>, drafts |-> ds, listings |-> ls,
     mails |-> ms]

Handled(resp, cs, ds, ls) == Outcome(resp, cs, ds, ls, <<>>)

Draft(path, st, en, title, loc) ==
    [path |-> path, start |-> st, end |-> en, title |-> title, location |-> loc]

\* token positions where 'from <n> am|pm to <n> am|pm' starts
RangeMatches(q) ==
    {i \in 1..(Len(q) - 5) :
        /\ IsWord(q[i], "from") /\ IsNum(q[i + 1]) /\ IsMeridiem(q[i + 2])
        /\ IsWord(q[i + 3], "to") /\ IsNum(q[i + 4]) /\ IsMeridiem(q[i + 5])}

\* token positions where 'at <n> am|pm' starts
AtMatches(q) ==
    {i \in 1..(Len(q) - 2) :
        IsWord(q[i], "at") /\ IsNum(q[i + 1]) /\ IsMeridiem(q[i + 2])}

\* the hour as written, whatever the meridiem
To24_AsWritten(hh, pm) == hh

\* If the hour is 'pm' and below 12, add 12
To24(hh, pm) == IF pm /\ hh < 12 THEN hh + 12 ELSE hh

\* the end time of the LLM stage kept as it is
RangeOverride_Off(q, st, en) == en

\* "Directly parse from input if LLM fails": the end time the override block
\* of create_calendar_event leaves, given the start and end computed so far.
\* int("4:30") and replace(hour=24) raise; the block swallows the exception.
RangeOverride(q, st, en) ==
    IF ~(Has(q, "from") /\ Has(q, "to") /\ Has(q, "pm")) THEN en
    ELSE IF RangeMatches(q) = {} THEN en
    ELSE LET i == MinOf(RangeMatches(q))
             a == q[i + 1]
             b == q[i + 4]
         IN  IF a.hasMin \/ b.hasMin THEN en
             ELSE LET end_hr == To24(b.h, Has(q, "pm"))
                  IN  IF end_hr > 23 THEN en
                      ELSE (st \div 1440) * 1440 + end_hr * 60

\* "Parse end time - with improved handling"
LlmEnd(c, st) ==
    IF c.end.t \in {"ok", "bad"} /\ c.end # c.start
    THEN IF c.end.t = "bad" THEN st + 60
         ELSE LET en == LlmDay * 1440 + c.end.h * 60 + c.end.m
              IN  IF en <= st THEN st + 60 ELSE en
    ELSE st + 60

TemporalWords == {"on", "tomorrow", "next", "this", "at", "from", "contact"}

\* re.match(r'^(.*?)(?:on|tomorrow|next|this|at|from)', query): the text
\* before the first temporal keyword ("contact" holds "on" after its "c")
Title(q) ==
    LET S == {i \in 1..Len(q) : q[i].k = "w" /\ q[i].w \in TemporalWords}
    IN  IF S = {} THEN <<W("New Event")>>
        ELSE LET i == MinOf(S)
             IN  SubSeq(q, 1, i - 1) \o (IF q[i].w = "contact" THEN <<W("c")>> ELSE <<>>)

\* a token of [\w\s]+ : no ':' , '@' or '.'
PureWord(t) == IF t.k = "n" THEN ~t.hasMin ELSE t.w \notin Addresses

\* re.search(r'at\s+([\w\s]+)(?:$|\.)', query), kept unless it holds "at"
Location(q) ==
    LET S == {i \in 1..(Len(q) - 1) :
                IsWord(q[i], "at") /\ \A j \in (i + 1)..Len(q) : PureWord(q[j])}
    IN  IF S = {} THEN <<>>
        ELSE LET g == SubSeq(q, MinOf(S) + 1, Len(q))
             IN  IF Has(g, "at") THEN <<>> ELSE g

\* start and end (hour, minute) of simple_event_parser
FallbackTimes(q) ==
    LET dflt == [sh |-> 9, sm |-> 0, eh |-> 10, em |-> 0]
        at == IF AtMatches(q) = {} THEN dflt
              ELSE LET i == MinOf(AtMatches(q))
                       hour == To24(q[i + 1].h, q[i + 2].w = "pm")
                       minute == IF q[i + 1].hasMin THEN q[i + 1].m ELSE 0
                   IN  [sh |-> hour, sm |-> minute, eh |-> hour + 1, em |-> minute]
    IN  IF RangeMatches(q) = {} THEN at
        ELSE LET i == MinOf(RangeMatches(q))
             IN  [sh |-> To24(q[i + 1].h, q[i + 2].w = "pm"),
                  sm |-> IF q[i + 1].hasMin THEN q[i + 1].m ELSE 0,
                  eh |-> To24(q[i + 4].h, q[i + 5].w = "pm"),
                  em |-> IF q[i + 4].hasMin THEN q[i + 4].m ELSE 0]

\* simple_event_parser(query, timezone), entered at action number `at`
simple_event_parser(q, at, creds, ins) ==
    LET c1 == <<Call("creds", at, creds)>>
        t == FallbackTimes(q)
        day == IF Has(q, "tomorrow") THEN 1 ELSE 0
        d == Draft("fallback", day * 1440 + t.sh * 60 + t.sm,
                   day * 1440 + t.eh * 60 + t.em, Title(q), Location(q))
    IN  IF creds = "raise"
        THEN Handled(<<"X Failed to create calendar event with fallback parser">>, c1, <<>>, <<>>)
        ELSE IF creds = "none"
        THEN Handled(<<"X Google credentials not available. Unable to create calendar event.">>,
                     c1, <<>>, <<>>)
        ELSE IF t.sh > 23 \/ t.eh > 23 \/ t.sm > 59 \/ t.em > 59
        THEN Handled(<<"X Failed to create calendar event with fallback parser">>, c1, <<>>, <<>>)
        ELSE IF ins = "raise"
        THEN Handled(<<"X Failed to create calendar event with fallback parser">>,
                     c1 \o Attempt("insert", at, ins), <<d>>, <<>>)
        ELSE Handled(<<"OK Event Scheduled Successfully">>,
                     c1 \o Attempt("insert", at, ins), <<d>>, <<>>)

\* event_details = json.loads(response_content) succeeded
Parsing(o, c) == [o EXCEPT !.details = <<c>>]

\* create_calendar_event(query) after the LLM answered with content c
create_from_llm(v, q, at, c, creds2, ins, cs) ==
    LET fail == Handled(<<"X Failed to create calendar event">>, cs, <<>>, <<>>)
    IN  IF c.t \in {"raise", "none"} THEN fail
        ELSE IF c.t = "invalid"
        THEN IF v = "main_code"
             THEN LET f == simple_event_parser(q, at, creds2, ins)
                  IN  Handled(f.resp, cs \o f.calls, f.drafts, <<>>)
             ELSE Handled(<<"X Failed to parse event details">>, cs, <<>>, <<>>)
        ELSE IF c.t = "nonobj" THEN Parsing(fail, c)
        ELSE IF c.date # "ok" \/ c.start.t # "ok" THEN Parsing(fail, c)
        ELSE LET st == LlmDay * 1440 + c.start.h * 60 + c.start.m
                 en == RangeOverride(q, st, LlmEnd(c, st))
                 d == Draft("llm", st, en, <<W("<summary>")>>, <<>>)
             IN  IF ~c.summary THEN Parsing(fail, c)
                 ELSE IF ins = "raise"
                 THEN Parsing(Handled(<<"X Failed to create calendar event">>,
                                      cs \o Attempt("insert", at, ins), <<d>>, <<>>), c)
                 ELSE Parsing(Handled(<<"OK Event Scheduled Successfully">>,
                                      cs \o Attempt("insert", at, ins), <<d>>, <<>>), c)

\* create_calendar_event(query), entered at action number `at`
create_calendar_event(v, q, at, creds, groq, c, creds2, ins) ==
    LET c1 == <<Call("creds", at, creds)>>
        c2 == c1 \o <<Call("groq_client", at, Got(groq))>>
    IN  IF creds = "raise"
        THEN Handled(<<"X Failed to create calendar event">>, c1, <<>>, <<>>)
        ELSE IF creds = "none"
        THEN Handled(<<"X Google credentials not available. Unable to create calendar event.">>,
                     c1, <<>>, <<>>)
        ELSE IF ~groq
        THEN IF v = "main_code"
             THEN LET f == simple_event_parser(q, at, creds2, ins)
                  IN  Handled(f.resp, c2 \o f.calls, f.drafts, <<>>)
             ELSE Handled(<<"X Error initializing Groq client. Please check your API key.">>,
                          c2, <<>>, <<>>)
        ELSE create_from_llm(v, q, at, c, creds2, ins, c2 \o <<Call("llm", at, Answered(c))>>)

----------------------------------------------------------------------------
(* list_calendar_events *)

\* What the count completion can be: the call raises, its content is None,
\* text that int() rejects, or an integer.
CountCompletions ==
    {[t |-> tt, n |-> 0] : tt \in {"raise", "none", "text"}}
    \cup {[t |-> "int", n |-> i] : i \in {-1, 0, 1, 5, 50, 51}}

\* token positions where r'(\d+)\s+(?:upcoming\s+)?events' starts
CountMatches(q) ==
    {i \in 1..(Len(q) - 1) :
        /\ IsNum(q[i])
        /\ \/ IsWord(q[i + 1], "events")
           \/ i + 2 <= Len(q) /\ IsWord(q[i + 1], "upcoming") /\ IsWord(q[i + 2], "events")}

\* the default count whatever the digits
CountDigits_Default(t) == 10

\* the digits the pattern captures: those after the ':' of "4:30"
CountDigits(t) == IF t.hasMin THEN t.m ELSE t.h

\* a header that counts the items returned
Header_Returned(num_events, returned) == returned

\* f"\nUpcoming {num_events} Events:"
Header(num_events, returned) == num_events

\* the list request made (maxResults, days to timeMax), the items it
\* returned and the number in the header line of the response
Listing(count, days, returned) ==
    [count |-> count, days |-> days, returned |-> returned,
     header |-> Header(count, returned)]

\* "Get date range - default to 30 days"
DaysAhead(q) ==
    IF Has2(q, "this", "week") THEN 7
    ELSE IF Has2(q, "this", "month") THEN 30
    ELSE IF Has(q, "today") THEN 1
    ELSE 30

\* list_calendar_events(query) of main_code.py
list_calendar_events_main(q, at, creds, groq, c, api) ==
    LET c1 == <<Call("creds", at, creds)>>
        fail == <<"X Failed to list calendar events">>
        explicit == IF CountMatches(q) = {} THEN 10
                    ELSE CountDigits(q[MinOf(CountMatches(q))])
        ask == Has2(q, "next", "few") \/ (Has(q, "upcoming") /\ CountMatches(q) = {})
        c2 == IF ask THEN c1 \o <<Call("groq_client", at, Got(groq))>> ELSE c1
        c3 == IF ask /\ groq THEN c2 \o <<Call("llm", at, Answered(c))>> ELSE c2
        num == IF ask /\ groq /\ c.t = "int" /\ 1 <= c.n /\ c.n <= 50 THEN c.n ELSE explicit
        l == Listing(num, DaysAhead(q), api.n)
    IN  IF creds = "raise" THEN Outcome(fail, c1, <<>>, <<>>, <<>>)
        ELSE IF creds = "none"
        THEN Outcome(<<"X Google credentials not available. Unable to list calendar events.">>,
                     c1, <<>>, <<>>, <<>>)
        ELSE IF ask /\ groq /\ c.t \in {"raise", "none"}
        THEN Outcome(fail, c3, <<>>, <<>>, <<>>)
        ELSE IF api.t = "raise"
        THEN Outcome(fail, c3 \o Attempt("list", at, api.t), <<>>, <<l>>, <<>>)
        ELSE Outcome(<<"Upcoming <count> Events">>, c3 \o Attempt("list", at, api.t),
                     <<>>, <<l>>, <<>>)

\* list_calendar_events(query) of agent_manager.py
list_calendar_events_am(q, at, creds, groq, c, api) ==
    LET c1 == <<Call("creds", at, creds)>>
        c2 == c1 \o <<Call("groq_client", at, Got(groq))>>
        c3 == c2 \o <<Call("llm", at, Answered(c))>>
        fail == <<"X Failed to list calendar events">>
        l == Listing(IF c.t = "int" THEN c.n ELSE 10, 30, api.n)
    IN  IF creds = "raise" THEN Outcome(fail, c1, <<>>, <<>>, <<>>)
        ELSE IF ~groq
        THEN Outcome(<<"X Error initializing Groq client. Please check your API key.">>,
                     c2, <<>>, <<>>, <<>>)
        ELSE IF c.t \in {"raise", "none"} THEN Outcome(fail, c3, <<>>, <<>>, <<>>)
        ELSE IF api.t = "raise"
        THEN Outcome(fail, c3 \o Attempt("list", at, api.t), <<>>, <<l>>, <<>>)
        ELSE Outcome(<<"Upcoming <count> Events">>, c3 \o Attempt("list", at, api.t),
                     <<>>, <<l>>, <<>>)

list_calendar_events(v, q, at, creds, groq, c, api) ==
    IF v = "main_code" THEN list_calendar_events_main(q, at, creds, groq, c, api)
    ELSE list_calendar_events_am(q, at, creds, groq, c, api)

----------------------------------------------------------------------------
(* send_email *)

Mail(to) == [to |-> to]

\* "Get sender email" ... "Create and send message"
SendMessage(q, at, cs, profile, send) ==
    LET m == Mail(FirstAddress(q))
    IN  IF profile = "raise"
        THEN Outcome(<<"X Email sending failed">>, cs \o <<Call("getProfile", at, profile)>>,
                     <<>>, <<>>, <<>>)
        ELSE IF send = "raise"
        THEN Outcome(<<"X Email sending failed">>,
                     cs \o <<Call("getProfile", at, profile)>> \o Attempt("send", at, send), <<>>, <<>>, <<m>>)
        ELSE Outcome(<<"OK Email sent successfully", "To: ", m.to>>,
                     cs \o <<Call("getProfile", at, profile)>> \o Attempt("send", at, send), <<>>, <<>>, <<m>>)

\* send_email(query) of main_code.py; build: Credentials... / build('gmail')
send_email_main(q, at, creds, build, profile, send) ==
    LET c1 == <<Call("creds", at, creds)>>
    IN  IF creds = "raise"
        THEN Outcome(<<"X Failed to process email request">>, c1, <<>>, <<>>, <<>>)
        ELSE IF creds = "none"
        THEN Outcome(<<"X Google credentials not available. Unable to send email.">>,
                     c1, <<>>, <<>>, <<>>)
        ELSE IF ~HasEmailAddress(q)
        THEN Outcome(<<"X No email address found in the query!">>, c1, <<>>, <<>>, <<>>)
        ELSE IF build = "raise"
        THEN Outcome(<<"X Failed to process email request">>, c1, <<>>, <<>>, <<>>)
        ELSE SendMessage(q, at, c1, profile, send)

\* r'(?:to|send to|email to)\s+([a-zA-Z0-9\s]+)'
ToPattern(q) ==
    \E i \in 1..(Len(q) - 1) :
        /\ q[i].k = "w" /\ q[i].w \in WordsContaining("to")
        /\ (q[i + 1].k = "n" \/ q[i + 1].w \notin Addresses)

\* send_email(query) of agent_manager.py; a body completion that raises or
\* is too short is replaced by the template, so its content decides nothing here
send_email_am(q, at, creds, groq, llm, profile, send) ==
    LET c1 == <<Call("creds", at, creds)>>
        c2 == c1 \o <<Call("groq_client", at, Got(groq))>>
        c3 == IF groq THEN c2 \o <<Call("llm", at, llm)>> ELSE c2
    IN  IF creds = "raise"
        THEN Outcome(<<"X Failed to send email">>, c1, <<>>, <<>>, <<>>)
        ELSE IF ~HasEmailAddress(q)
        THEN IF ToPattern(q)
             THEN Outcome(<<"X Could not find a valid email address">>, c1, <<>>, <<>>, <<>>)
             ELSE Outcome(<<"X No email address found in the query!">>, c1, <<>>, <<>>, <<>>)
        ELSE SendMessage(q, at, c3, profile, send)

----------------------------------------------------------------------------
(* execute_tools and agent_manager                                         *)
(* drafts, listings and mails hold what the action executed last passed    *)
(* to calendar insert, calendar list and gmail send.                       *)

RECURSIVE JoinWith(_, _)
\* sep.join(rs)
JoinWith(rs, sep) ==
    IF rs = <<>> THEN <<>>
    ELSE IF Len(rs) = 1 THEN rs[1]
    ELSE rs[1] \o <<sep>> \o JoinWith(Tail(rs), sep)

\* responses joined by a line break only
JoinBlank_SingleNewline(rs) == JoinWith(rs, "\n")

\* "\n\n".join(responses)
JoinBlank(rs) == JoinWith(rs, "\n\n")

\* the message of the empty-responses branch
NoActionsMessage_FallThrough == <<"I couldn't process your request. Please try again.">>

NoActionsMessage == <<"No specific actions were identified from your request. Please try again with a clearer request.">>

\* the branch of the loop body of execute_tools taken for `action`
Dispatch(action) ==
    IF action \in KnownActions THEN action ELSE "unknown"

\* a response that does not name the action
UnknownAction_Anonymous(action) == <<"Unknown action: ">>

\* the response appended for an action no branch knows
UnknownAction(action) == <<"Unknown action: ", action>>

\* final_response after the loop of execute_tools
Joined(rs) ==
    IF rs = <<>> THEN <<"I couldn't process your request. Please try again.">>
    ELSE JoinBlank(rs)

\* a return of final_response as it stands
Returned_Unguarded(esc, fr) == fr

\* the value agent_manager returns
Returned(esc, fr) ==
    IF esc THEN <<"Error processing your request: ", "<exception>">>
    ELSE IF fr # <<>> THEN fr
    ELSE <<"Sorry, I couldn't generate a response for your request.">>

\* the collaborator answers a handler run can depend on, given the ones
\* that come before them (the others are fixed, so that no run is counted twice)
GroqAfter(creds) == IF creds = "ok" THEN BOOLEAN ELSE {FALSE}
EventAfter(creds, groq) ==
    IF creds = "ok" /\ groq THEN EventCompletions ELSE {EventNoObj("raise")}
FallbackCreds(v, creds, groq, c) ==
    IF v = "main_code" /\ creds = "ok" /\ (~groq \/ c.t = "invalid")
    THEN CredsOutcomes(v) ELSE {"ok"}
CountAfter(creds, groq) ==
    IF creds = "ok" /\ groq THEN CountCompletions ELSE {[t |-> "raise", n |-> 0]}

\* response.choices[0].message.content of the routing completion: what
\* kind of text the route stage was given, "unasked" if it sent no prompt
Content(cs, c) ==
    IF \E k \in 1..Len(cs) : cs[k].op = "llm" THEN c.t ELSE "unasked"

\* a final_response that is kept once it is set
Overwrite_KeepExisting(old, new) == IF old # <<>> THEN old ELSE new

\* state["final_response"] = ... in execute_tools
Overwrite(old, new) == new

\* an edge from "execute" back to "route"
Edge_BackToRoute(node) == IF node = "execute" THEN "route" ELSE "execute"

\* the edges of the workflow: add_edge("route", "execute"), and the end of
\* graph.invoke after "execute", the node with no edge out
Edge(node) == IF node = "route" THEN "execute" ELSE "return"

Init ==
    /\ \E r \in Requests : variant = r[1] /\ query = r[2]
    /\ pc = "route"
    /\ actions = ListVal(<<>>)
    /\ final_response = <<>>
    /\ responses = <<>>
    /\ idx = 1
    /\ calls = <<>>
    /\ event_details = <<>>
    /\ drafts = <<>>
    /\ listings = <<>>
    /\ mails = <<>>
    /\ result = <<>>
    /\ escaped = FALSE
    /\ inflight = <<>>
    /\ route_content = "unasked"

\* the "route" node
Route ==
    /\ pc = "route"
    /\ \E groq \in BOOLEAN :
       \E c \in (IF groq THEN RouteCompletions ELSE {[t |-> "raise", v |-> Null]}) :
          LET r == route_query(variant, query, groq, c)
          IN  /\ actions' = r.actions
              /\ final_response' = IF r.setsFr THEN r.fr ELSE final_response
              /\ calls' = calls \o r.calls
              /\ route_content' = Content(r.calls, c)
    /\ pc' = Edge("route")
    /\ UNCHANGED <<inflight, variant, query, responses, idx, event_details, drafts, listings, mails,
                   result, escaped>>

\* execute_tools: "if not state['actions']"
ExecuteNoActions ==
    /\ pc = "execute"
    /\ ~Truthy(actions)
    /\ final_response' = Overwrite(final_response, NoActionsMessage)
    /\ pc' = Edge("execute")
    /\ UNCHANGED <<route_content, inflight, variant, query, actions, responses, idx, calls, event_details, drafts,
                   listings, mails, result, escaped>>

\* execute_tools: the for statement over a value that cannot be iterated
\* raises TypeError outside the loop's try; graph.invoke passes it on
ExecuteTypeError ==
    /\ pc = "execute"
    /\ Truthy(actions) /\ ~Iterable(actions)
    /\ escaped' = TRUE
    /\ pc' = "return"
    /\ UNCHANGED <<route_content, inflight, variant, query, actions, final_response, responses, idx, calls,
                   event_details, drafts, listings, mails, result>>

\* the lines that report a failure
FailureLines ==
    {"X Failed to create calendar event",
     "X Failed to create calendar event with fallback parser",
     "X Google credentials not available. Unable to create calendar event.",
     "X Error initializing Groq client. Please check your API key.",
     "X Failed to parse event details",
     "X Failed to list calendar events",
     "X Google credentials not available. Unable to list calendar events.",
     "X Failed to process email request",
     "X Failed to send email",
     "X Google credentials not available. Unable to send email.",
     "X No email address found in the query!",
     "X Could not find a valid email address",
     "X Email sending failed"}

\* a loop that stops at the first failure line
LoopNext_BreakOnFailure(i, resp, n) == IF resp[1] \in FailureLines THEN n + 1 ELSE i + 1

\* the for loop of execute_tools: the handler of action i returned resp (or
\* the loop's except clause made resp of its exception); the action
\* executed next
LoopNext(i, resp, n) == i + 1

Apply(o) ==
    /\ responses' = Append(responses, o.resp)
    /\ calls' = calls \o o.calls
    /\ event_details' = o.details
    /\ drafts' = o.drafts
    /\ listings' = o.listings
    /\ mails' = o.mails
    /\ idx' = LoopNext(idx, o.resp, Len(actions.items))
    /\ UNCHANGED <<route_content, inflight, variant, query, pc, actions, final_response, result, escaped>>

Pending ==
    /\ pc = "execute"
    /\ Truthy(actions) /\ Iterable(actions)
    /\ idx <= Len(actions.items)

\* one iteration of the loop of execute_tools, action == "calendar_create"
ExecuteCreate ==
    /\ Pending
    /\ Dispatch(actions.items[idx]) = "calendar_create"
    /\ \E creds \in CredsOutcomes(variant) : \E groq \in GroqAfter(creds) :
       \E c \in EventAfter(creds, groq) :
       \E creds2 \in FallbackCreds(variant, creds, groq, c) : \E ins \in ApiOutcomes :
          Apply(create_calendar_event(variant, query, idx, creds, groq, c, creds2, ins))

\* one iteration of the loop of execute_tools, action == "calendar_list"
ExecuteList ==
    /\ Pending
    /\ Dispatch(actions.items[idx]) = "calendar_list"
    /\ \E creds \in CredsOutcomes(variant) : \E groq \in GroqAfter(creds) :
       \E c \in CountAfter(creds, groq) : \E api \in ListOutcomes :
          Apply(list_calendar_events(variant, query, idx, creds, groq, c, api))

\* one iteration of the loop of execute_tools, action == "email"
ExecuteEmail ==
    /\ Pending
    /\ Dispatch(actions.items[idx]) = "email"
    /\ \E creds \in CredsOutcomes(variant) : \E b \in GroqAfter(creds) :
       \E llm \in (IF variant = "agent_manager" /\ b THEN ApiOutcomes ELSE {"ok"}) :
       \E profile \in ApiOutcomes : \E send \in ApiOutcomes :
          Apply(IF variant = "main_code"
                THEN send_email_main(query, idx, creds, IF b THEN "ok" ELSE "raise",
                                     profile, send)
                ELSE send_email_am(query, idx, creds, b, llm, profile, send))

\* one iteration of the loop of execute_tools, the else branch
ExecuteUnknown ==
    /\ Pending
    /\ Dispatch(actions.items[idx]) = "unknown"
    /\ Apply(Outcome(UnknownAction(actions.items[idx]), <<>>, <<>>, <<>>, <<>>))

\* execute_tools after the loop
ExecuteJoin ==
    /\ pc = "execute"
    /\ Truthy(actions) /\ Iterable(actions)
    /\ idx > Len(actions.items)
    /\ final_response' = Overwrite(final_response, Joined(responses))
    /\ pc' = Edge("execute")
    /\ UNCHANGED <<route_content, inflight, variant, query, actions, responses, idx, calls, event_details, drafts,
                   listings, mails, result, escaped>>

\* agent_manager after graph.invoke
Return ==
    /\ pc = "return"
    /\ result' = Returned(escaped, final_response)
    /\ pc' = "done"
    /\ UNCHANGED <<route_content, inflight, variant, query, actions, final_response, responses, idx, calls,
                   event_details, drafts, listings, mails, escaped>>

Next ==
    \/ Route
    \/ ExecuteNoActions
    \/ ExecuteTypeError
    \/ ExecuteCreate
    \/ ExecuteList
    \/ ExecuteEmail
    \/ ExecuteUnknown
    \/ ExecuteJoin
    \/ Return

Spec == Init /\ [][Next]_vars

----------------------------------------------------------------------------
(* Two invocations of agent_manager in flight at once.  inflight[r] is the  *)
(* state dict of invocation r with the position it has reached and the      *)
(* answer its route stage was given.                                        *)

RequestIds == {1, 2}

IsolationQueries ==
    { <<W("kickoff")>>,
      <<W("show"), W("events")>>,
      <<W("send"), W("email"), W("to"), W(Address)>> }

IsolationRoutes ==
    {[t |-> "raise", v |-> Null],
     [t |-> "obj", v |-> ListVal(<<>>)],
     [t |-> "obj", v |-> ListVal(<<"calendar_list">>)],
     [t |-> "obj", v |-> ListVal(<<"email", "calendar_create">>)],
     [t |-> "obj", v |-> IntVal(5)]}

\* graph.invoke({"query": query, "actions": [], "current_agent": "",
\* "final_response": ""}): the dict made for this invocation
Invoke(q) ==
    [query |-> q, pc |-> "route", actions |-> ListVal(<<>>), final_response |-> <<>>,
     responses |-> <<>>, idx |-> 1, calls |-> <<>>, heard |-> <<>>, result |-> <<>>,
     escaped |-> FALSE]

\* one dict that every invocation reads and writes
Written_Shared(fl, r, s) == [x \in DOMAIN fl |-> s]

\* a node writes the state it was passed and returns it
Written(fl, r, s) == [fl EXCEPT ![r] = s]

\* what a handler can return and call, over the collaborator answers
\* followed when two invocations run
HandlerOutcomes(v, q, at, action) ==
    CASE Dispatch(action) = "calendar_create" ->
            {create_calendar_event(v, q, at, "ok", groq, c, "ok", ins) :
                groq \in BOOLEAN,
                c \in {EventObj("ok", Time(9, 0), Absent, TRUE), EventNoObj("invalid")},
                ins \in ApiOutcomes}
      [] Dispatch(action) = "calendar_list" ->
            {list_calendar_events(v, q, at, creds, TRUE, [t |-> "int", n |-> 5], api) :
                creds \in {"ok", "raise"},
                api \in {[t |-> "raise", n |-> 0], [t |-> "ok", n |-> 10]}}
      [] Dispatch(action) = "email" ->
            {IF v = "main_code" THEN send_email_main(q, at, "ok", "ok", "ok", send)
             ELSE send_email_am(q, at, "ok", TRUE, "ok", "ok", send) :
                send \in ApiOutcomes}
      [] OTHER -> {Outcome(UnknownAction(action), <<>>, <<>>, <<>>, <<>>)}

Init2 ==
    /\ variant \in {"main_code", "agent_manager"}
    /\ query = <<>>
    /\ pc = "route"
    /\ actions = ListVal(<<>>)
    /\ final_response = <<>>
    /\ responses = <<>>
    /\ idx = 1
    /\ calls = <<>>
    /\ event_details = <<>>
    /\ drafts = <<>>
    /\ listings = <<>>
    /\ mails = <<>>
    /\ result = <<>>
    /\ escaped = FALSE
    /\ route_content = "unasked"
    /\ inflight \in [RequestIds -> {Invoke(q) : q \in IsolationQueries}]

Alone ==
    UNCHANGED <<variant, query, pc, actions, final_response, responses, idx, calls,
                event_details, drafts, listings, mails, result, escaped, route_content>>

\* the "route" node of invocation r
RouteOf(r) ==
    LET s == inflight[r]
    IN  /\ s.pc = "route"
        /\ \E groq \in BOOLEAN :
           \E c \in (IF groq THEN IsolationRoutes ELSE {[t |-> "raise", v |-> Null]}) :
              LET o == route_query(variant, s.query, groq, c)
              IN  inflight' = Written(inflight, r,
                      [s EXCEPT !.actions = o.actions,
                                !.final_response = IF o.setsFr THEN o.fr ELSE @,
                                !.calls = @ \o o.calls,
                                !.heard = <<[groq |-> groq, c |-> c]>>,
                                !.pc = Edge("route")])
        /\ Alone

\* one iteration of the loop of execute_tools of invocation r
HandleOf(r) ==
    LET s == inflight[r]
    IN  /\ s.pc = "execute"
        /\ Truthy(s.actions) /\ Iterable(s.actions)
        /\ s.idx <= Len(s.actions.items)
        /\ \E o \in HandlerOutcomes(variant, s.query, s.idx, s.actions.items[s.idx]) :
              inflight' = Written(inflight, r,
                  [s EXCEPT !.responses = Append(@, o.resp),
                            !.calls = @ \o o.calls,
                            !.idx = LoopNext(s.idx, o.resp, Len(s.actions.items))])
        /\ Alone

\* execute_tools of invocation r outside the loop: no actions, a value
\* that cannot be iterated, or the join after the loop
LeaveExecuteOf(r) ==
    LET s == inflight[r]
    IN  /\ s.pc = "execute"
        /\ IF ~Truthy(s.actions)
           THEN inflight' = Written(inflight, r,
                    [s EXCEPT !.final_response = NoActionsMessage, !.pc = Edge("execute")])
           ELSE IF ~Iterable(s.actions)
           THEN inflight' = Written(inflight, r,
                    [s EXCEPT !.escaped = TRUE, !.pc = "return"])
           ELSE /\ s.idx > Len(s.actions.items)
                /\ inflight' = Written(inflight, r,
                       [s EXCEPT !.final_response = Joined(s.responses),
                                 !.pc = Edge("execute")])
        /\ Alone

\* agent_manager of invocation r after graph.invoke
ReturnOf(r) ==
    LET s == inflight[r]
    IN  /\ s.pc = "return"
        /\ inflight' = Written(inflight, r,
               [s EXCEPT !.result = Returned(s.escaped, s.final_response), !.pc = "done"])
        /\ Alone

Next2 ==
    \E r \in RequestIds :
        \/ RouteOf(r)
        \/ HandleOf(r)
        \/ LeaveExecuteOf(r)
        \/ ReturnOf(r)

TwoRequests == Init2 /\ [][Next2]_vars

----------------------------------------------------------------------------
(* Properties *)

RouteDone == pc # "route"
ExecuteDone == pc \in {"return", "done"}
ActionList == Truthy(actions) /\ Iterable(actions)
CallsOf(i) == {k \in 1..Len(calls) : calls[k].at = i}
ContainsClause(q, cl) ==
    \E i \in 1..(Len(q) - Len(cl) + 1) : SubSeq(q, i, i + Len(cl) - 1) = cl

\* C1: whenever the query holds a valid email address, route returns exactly
\* [email], whatever creation or listing keywords the query also holds.
C1_AddressRoutesToEmail ==
    (RouteDone /\ HasEmailAddress(query)) => actions = ListVal(<<"email">>)

\* C2: every event body passed to calendar insert, from the LLM stage or from
\* the fallback parser, ends strictly after it starts.
C2_EndAfterStart ==
    \A i \in 1..Len(drafts) : drafts[i].end > drafts[i].start

\* C3: for a query holding "from 4 pm to 6 pm" the event body passed to insert
\* starts at 16:00 and ends at 18:00, whatever times the LLM returned.
C3_RangeOverridesBoth ==
    ContainsClause(query, RangeClause(N(4), "pm", N(6), "pm")) =>
        \A i \in 1..Len(drafts) :
            /\ drafts[i].start % 1440 = 16 * 60
            /\ drafts[i].end % 1440 = 18 * 60

\* C4: a query without an address that holds "schedule" is routed to
\* [calendar_create] with or without an LLM client, and the route stage makes
\* no LLM completion call.
C4_ScheduleShortCircuits ==
    (RouteDone /\ ~HasEmailAddress(query) /\ Has(query, "schedule")) =>
        /\ actions = ListVal(<<"calendar_create">>)
        /\ \A k \in CallsOf(0) : calls[k].op # "llm"

\* C5: agent_manager returns a non-empty string for every query and every
\* behaviour of the collaborators; every run reaches the return.
C5_AlwaysReturnsString ==
    /\ pc = "done" => (result # <<>> /\ \A k \in 1..Len(result) : result[k] # "")
    /\ pc # "done" => ENABLED Next

\* an exception left execute_tools and agent_manager still returned a string
C5_Witness == pc = "done" /\ escaped /\ result # <<>>

\* C6: a failing handler yields an error line for its action and the loop
\* goes on: while the loop runs there is one response per action executed,
\* and after execute one response per element of the action list.
C6_OneResponsePerAction ==
    /\ (pc = "execute" /\ ActionList) => Len(responses) = idx - 1
    /\ (ExecuteDone /\ ActionList) => Len(responses) = Len(actions.items)
    /\ \A i \in 1..Len(responses) : responses[i] # <<>>

\* the first of two actions failed and the second still called a collaborator
C6_Witness ==
    /\ pc = "done" /\ ActionList /\ Len(actions.items) = 2
    /\ responses[1][1] \in FailureLines
    /\ Len(responses) = 2
    /\ CallsOf(2) # {}

\* the operations each kind of action may call, and the lines it may return
OpsOf(kind) ==
    CASE kind = "calendar_create" -> {"creds", "groq_client", "llm", "insert"}
      [] kind = "calendar_list" -> {"creds", "groq_client", "llm", "list"}
      [] kind = "email" -> {"creds", "groq_client", "llm", "getProfile", "send"}
      [] OTHER -> {}

LinesOf(kind) ==
    CASE kind = "calendar_create" ->
            {"OK Event Scheduled Successfully",
             "X Failed to create calendar event",
             "X Failed to create calendar event with fallback parser",
             "X Google credentials not available. Unable to create calendar event.",
             "X Error initializing Groq client. Please check your API key.",
             "X Failed to parse event details"}
      [] kind = "calendar_list" ->
            {"Upcoming <count> Events",
             "X Failed to list calendar events",
             "X Google credentials not available. Unable to list calendar events.",
             "X Error initializing Groq client. Please check your API key."}
      [] kind = "email" ->
            {"OK Email sent successfully",
             "X Failed to process email request",
             "X Failed to send email",
             "X Google credentials not available. Unable to send email.",
             "X No email address found in the query!",
             "X Could not find a valid email address",
             "X Email sending failed"}
      [] OTHER -> {"Unknown action: "}

RECURSIVE Offset(_, _)
\* the number of fragments of the joined text that come before response i
Offset(rs, i) == IF i = 1 THEN 0 ELSE Offset(rs, i - 1) + Len(rs[i - 1]) + 1

\* C7: the actions run one at a time in the order of the action list, each as
\* often as it occurs, and the final response is their outputs in that order
\* with a blank line between neighbours.
C7_InOrderJoinedByBlankLine ==
    /\ \A j \in 1..Len(calls) : \A k \in j..Len(calls) : calls[j].at <= calls[k].at
    /\ \A k \in 1..Len(calls) :
          calls[k].at >= 1 =>
              /\ ActionList /\ calls[k].at <= Len(actions.items)
              /\ calls[k].op \in OpsOf(Dispatch(actions.items[calls[k].at]))
    /\ \A i \in 1..Len(responses) :
          responses[i][1] \in LinesOf(Dispatch(actions.items[i]))
    /\ (ExecuteDone /\ ActionList) =>
          LET n == Len(responses)
          IN  /\ Len(final_response) = Offset(responses, n) + Len(responses[n])
              /\ \A i \in 1..n : \A k \in 1..Len(responses[i]) :
                    final_response[Offset(responses, i) + k] = responses[i][k]
              /\ \A i \in 2..n : final_response[Offset(responses, i)] = "\n\n"

\* the same action twice in the list: two listings made, in turn
C7_Witness ==
    /\ pc = "done"
    /\ actions = ListVal(<<"calendar_list", "calendar_list">>)
    /\ \E j \in CallsOf(1) : \E k \in CallsOf(2) :
          j < k /\ calls[j].op = "list" /\ calls[k].op = "list"
    /\ Len(final_response) = 3

\* C8: with an empty action list execute answers with the "No specific
\* actions were identified" message and calls no collaborator.
C8_NoActionsNoCalls ==
    (ExecuteDone /\ ~Truthy(actions)) =>
        /\ final_response =
              <<"No specific actions were identified from your request. Please try again with a clearer request.">>
        /\ responses = <<>>
        /\ \A k \in 1..Len(calls) : calls[k].at = 0

\* the LLM answered the routing prompt with an empty agents array
C8_Witness ==
    /\ pc = "done" /\ actions = ListVal(<<>>)
    /\ \E k \in CallsOf(0) : calls[k].op = "llm"

\* C9: the create-event flow surfaces no parse failure: whenever the LLM
\* answered the extraction prompt with a JSON object, whatever fields it
\* lacks or garbles, and every collaborator call of the create action
\* succeeded (credentials, LLM client, completion, insert), the action
\* reports the event as scheduled.
C9_NoParseFailureSurfaced ==
    LET i == Len(responses)
    IN  (/\ i >= 1
         /\ Dispatch(actions.items[i]) = "calendar_create"
         /\ event_details # <<>>
         /\ event_details[1].t = "obj"
         /\ \A k \in CallsOf(i) : calls[k].out = "ok")
        => responses[i][1] = "OK Event Scheduled Successfully"

\* the query names a start ("at <h> am/pm") and no range
StartOnly(q) == AtMatches(q) # {} /\ RangeMatches(q) = {}

\* C10: for a query with a start time and no end, the event ends one hour
\* after it starts: on the LLM path when end_time is missing or equal to
\* start_time, and on the fallback path, where the parser always gets there
\* unless a collaborator call failed.
C10_DefaultDurationOneHour ==
    LET i == Len(responses)
    IN  (i >= 1 /\ Dispatch(actions.items[i]) = "calendar_create" /\ StartOnly(query)) =>
            /\ \A j \in 1..Len(drafts) :
                  (\/ drafts[j].path = "fallback"
                   \/ event_details[1].end \in {Absent, Empty, event_details[1].start})
                  => drafts[j].end = drafts[j].start + 60
            /\ responses[i][1] = "X Failed to create calendar event with fallback parser"
                  => \E k \in CallsOf(i) : calls[k].out = "raise"

\* the operations that reach a collaborator service
ServiceOps == {"insert", "list", "send", "llm"}

\* C11: no collaborator call is made again after it failed: within one
\* action (and within route) each of calendar insert, calendar list, email
\* send and LLM completion is called at most once, also when create falls
\* from the LLM stage to the fallback parser.
C11_NoRetry ==
    \A i \in 0..Len(responses) : \A op \in ServiceOps :
        Cardinality({k \in CallsOf(i) : calls[k].op = op}) <= 1

\* the LLM stage gave up, the fallback parser's one insert failed
C11_Witness ==
    /\ drafts # <<>> /\ drafts[1].path = "fallback"
    /\ \E j \in CallsOf(Len(responses)) : \E k \in CallsOf(Len(responses)) :
          /\ j < k /\ calls[j].op = "llm"
          /\ calls[k].op = "insert" /\ calls[k].out = "raise"

\* C12: route runs once, then execute runs once: nothing of execute exists
\* while route has not finished, route hands over to execute only, execute
\* to the return only, no step leads back to route, and only route writes
\* the action list.
C12_TwoStagePipeline ==
    /\ [](pc = "route" => (responses = <<>> /\ calls = <<>> /\ idx = 1))
    /\ [][/\ pc' # pc => \/ pc = "route" /\ pc' = "execute"
                         \/ pc = "execute" /\ pc' = "return"
                         \/ pc = "return" /\ pc' = "done"
          /\ pc = "route" => pc' = "execute"
          /\ pc # "route" => actions' = actions
          /\ \A k \in (Len(calls) + 1)..Len(calls') :
                IF pc = "route" THEN calls'[k].at = 0
                ELSE pc = "execute" /\ calls'[k].at = idx]_vars

\* both stages ran and each called a collaborator
C12_Witness ==
    /\ pc = "done"
    /\ CallsOf(0) # {} /\ CallsOf(1) # {}

C14_CountPositive ==
    \A j \in 1..Len(listings) : listings[j].count >= 1

ScenarioD == <<W("schedule"), W("kickoff")>> \o RangeClause(N(4), "pm", N(6), "pm")

\* the create action executed last had a complete event object from the LLM
LlmEvent ==
    /\ responses # <<>>
    /\ Dispatch(actions.items[Len(responses)]) = "calendar_create"
    /\ event_details # <<>>
    /\ event_details[1].t = "obj"
    /\ event_details[1].date = "ok"
    /\ event_details[1].start.t = "ok"
    /\ event_details[1].summary

\* C15: for "schedule kickoff from 4 pm to 6 pm" and an LLM that returns
\* end_time 17:00, the event passed to insert ends at 18:00 of the event's day.
C15_QueryEndOverridesLlm ==
    (query = ScenarioD /\ LlmEvent /\ event_details[1].end = Time(17, 0)) =>
        /\ Len(drafts) = 1
        /\ drafts[1].end = (drafts[1].start \div 1440) * 1440 + 18 * 60

\* the LLM said 16:00 to 17:00 and the event was inserted
C15_Witness ==
    /\ query = ScenarioD /\ LlmEvent
    /\ event_details[1].start = Time(16, 0) /\ event_details[1].end = Time(17, 0)
    /\ drafts # <<>> /\ drafts[1].end % 1440 = 18 * 60
    /\ responses[Len(responses)][1] = "OK Event Scheduled Successfully"

ScenarioA ==
    <<W("schedule"), W("a"), W("meeting"), W("with"), W("john"), W("tomorrow"),
      W("at"), N(2), W("pm")>>

\* C16: for "schedule a meeting with john tomorrow at 2 pm" the event passed
\* to insert is on the day after today, from 14:00 to 15:00: on the fallback
\* path always, and on the LLM path when the LLM read that day and 14:00
\* from the query and gave no usable end_time.
C16_TomorrowAtTwo ==
    (query = ScenarioA) =>
        \A j \in 1..Len(drafts) :
            (\/ drafts[j].path = "fallback"
             \/ /\ LlmDay = 1
                /\ event_details[1].start = Time(14, 0)
                /\ event_details[1].end \in {Absent, Empty, Malformed, Time(14, 0)})
            => /\ drafts[j].start = 1440 + 14 * 60
               /\ drafts[j].end = 1440 + 15 * 60

\* the fallback parser resolved the query and the event was inserted
C16_Witness ==
    /\ query = ScenarioA
    /\ drafts # <<>> /\ drafts[1].path = "fallback"
    /\ drafts[1].start = 1440 + 14 * 60
    /\ responses[Len(responses)][1] = "OK Event Scheduled Successfully"

ScenarioB == <<W("show"), W("my"), W("next"), N(5), W("events")>>

\* C17: for "show my next 5 events" list_calendar_events of main_code.py
\* requests 5 events within 30 days.
C17_NextFiveEvents ==
    (variant = "main_code" /\ query = ScenarioB) =>
        \A j \in 1..Len(listings) : listings[j].count = 5 /\ listings[j].days = 30

\* the query was routed to the listing action and the list request made
C17_Witness ==
    /\ variant = "main_code" /\ query = ScenarioB
    /\ actions = ListVal(<<"calendar_list">>)
    /\ listings # <<>> /\ listings[1].count = 5
    /\ \E k \in CallsOf(1) : calls[k].op = "list" /\ calls[k].out = "ok"

\* C19: after route of main_code.py the action list is a list whose every
\* element is one of calendar_create, calendar_list, email.
C19_OnlyKnownActions ==
    (variant = "main_code" /\ RouteDone) =>
        /\ actions.t = "list"
        /\ \A i \in 1..Len(actions.items) : actions.items[i] \in KnownActions

\* C20: in main_code.py a query without an address that matches
\* "(meeting|appointment|call|interview) (with|on) ..." routes to
\* [calendar_create], whatever listing or email keyword it also holds.
C20_MeetingRuleFirst ==
    (variant = "main_code" /\ RouteDone /\ ~HasEmailAddress(query)
        /\ MeetingWithPattern(query))
    => actions = ListVal(<<"calendar_create">>)

\* C18: each invocation starts from a fresh state, and with two invocations
\* in flight in any interleaving every step writes the state of one
\* invocation only and never its query; the action list of an invocation is
\* what route makes of its own query and the answer it was given, its
\* responses are those of its own actions, and its final response and result
\* are made of its own responses.
C18_RequestsIsolated ==
    /\ [](\A r \in RequestIds :
            LET s == inflight[r]
            IN  /\ s.pc = "route" => s = Invoke(s.query)
                /\ s.pc # "route" =>
                      s.actions = route_query(variant, s.query, s.heard[1].groq,
                                              s.heard[1].c).actions
                /\ \A i \in 1..Len(s.responses) :
                      s.responses[i][1] \in LinesOf(Dispatch(s.actions.items[i]))
                /\ \A k \in 1..Len(s.calls) : s.calls[k].at <= Len(s.responses)
                /\ (s.pc \in {"return", "done"} /\ ~s.escaped) =>
                      s.final_response = IF ~Truthy(s.actions) THEN NoActionsMessage
                                         ELSE JoinBlank(s.responses)
                /\ s.pc = "done" => s.result = Returned(s.escaped, s.final_response))
    /\ [][\A r \in RequestIds :
            inflight'[r] # inflight[r] =>
                /\ inflight'[r].query = inflight[r].query
                /\ \A o \in RequestIds \ {r} : inflight'[o] = inflight[o]]_vars

\* the same query asked twice and routed differently; invocation 1 is in
\* the middle of its loop while invocation 2 has executed an action too
C18_Witness ==
    /\ inflight # <<>>
    /\ inflight[1].query = inflight[2].query
    /\ inflight[1].actions # inflight[2].actions
    /\ \A r \in RequestIds : inflight[r].pc = "execute" /\ inflight[r].responses # <<>>
    /\ inflight[1].idx <= Len(inflight[1].actions.items)

\* the routing prompt was sent
RoutePromptSent == RouteDone /\ route_content # "unasked"

\* C21: when no keyword rule matched and the routing completion is invalid
\* JSON from which neither an "agents" fragment nor a bracketed array
\* can be salvaged, route returns exactly [calendar_list].
C21_UnsalvageableDefaultsToList ==
    (RoutePromptSent /\ route_content \in {"frag_bad", "garbage"}) =>
        actions = ListVal(<<"calendar_list">>)

\* text without any array came back for a query that holds an address
C21_Witness ==
    /\ variant = "main_code" /\ RouteDone
    /\ route_content = "garbage"
    /\ HasEmailAddress(query)
    /\ actions = ListVal(<<"calendar_list">>)

\* C22: once the routing prompt was sent and the LLM call failed or gave an
\* unusable answer, route returns [calendar_list]; the keyword guess is
\* used only when no client could be obtained.
C22_NoGuessAfterPrompt ==
    (RoutePromptSent
        /\ route_content \in {"raise", "none", "empty", "nonobj", "obj_noagents",
                              "frag_bad", "garbage"})
    => actions = ListVal(<<"calendar_list">>)

\* C23: in create_calendar_event of main_code.py, when no LLM client was
\* obtained or the completion call raised, the fallback parser runs (it
\* asks for the credentials a second time) and the action does not return
\* the failure line of the LLM stage.
C23_LlmProblemFallsBack ==
    variant = "main_code" =>
        \A i \in 1..Len(responses) :
            (/\ Dispatch(actions.items[i]) = "calendar_create"
             /\ \E k \in CallsOf(i) :
                   \/ calls[k].op = "groq_client" /\ calls[k].out = "none"
                   \/ calls[k].op = "llm" /\ calls[k].out = "raise")
            => /\ Cardinality({k \in CallsOf(i) : calls[k].op = "creds"}) = 2
               /\ responses[i][1] # "X Failed to create calendar event"

\* C24: when the LLM stage succeeded and the query holds "from 4:30 pm to
\* 6:30 pm", the event passed to insert starts at 16:30 and ends at 18:30.
C24_RangeWithMinutesOverrides ==
    (ContainsClause(query, RangeClause(NM(4, 30), "pm", NM(6, 30), "pm")) /\ LlmEvent) =>
        \A j \in 1..Len(drafts) :
            /\ drafts[j].start % 1440 = 16 * 60 + 30
            /\ drafts[j].end % 1440 = 18 * 60 + 30

\* every "at" of the query starts a time clause "at <h> am/pm"
OnlyTimeAt(q) == \A i \in 1..Len(q) : IsWord(q[i], "at") => i \in AtMatches(q)

\* C25: in the fallback parser, a query whose "at" clauses are all time
\* clauses gives an event without location.
C25_TimeClauseIsNoLocation ==
    OnlyTimeAt(query) =>
        \A j \in 1..Len(drafts) :
            drafts[j].path = "fallback" => drafts[j].location = <<>>

\* C26: in list_calendar_events of main_code.py, a query with an explicit
\* "<n> events" makes no LLM call and requests n events.
C26_ExplicitCountSkipsLlm ==
    LET i == Len(responses)
    IN  (/\ variant = "main_code" /\ i >= 1
         /\ Dispatch(actions.items[i]) = "calendar_list"
         /\ CountMatches(query) # {})
        => /\ \A k \in CallsOf(i) : calls[k].op # "llm"
           /\ \A j \in 1..Len(listings) :
                 listings[j].count = query[MinOf(CountMatches(query))].h

\* C27: an action that is none of the three known kinds gets the one
\* response "Unknown action: <name>" and no collaborator call, and the
\* actions after it are executed.
C27_UnknownActionReported ==
    /\ \A i \in 1..Len(responses) :
          Dispatch(actions.items[i]) = "unknown" =>
              /\ responses[i] = <<"Unknown action: ", actions.items[i]>>
              /\ CallsOf(i) = {}
    /\ (ExecuteDone /\ ActionList) => Len(responses) = Len(actions.items)

\* an unknown action first, then a listing that reached the calendar
C27_Witness ==
    /\ pc = "done"
    /\ actions = ListVal(<<"bogus", "calendar_list">>)
    /\ responses[1] = <<"Unknown action: ", "bogus">>
    /\ \E k \in CallsOf(2) : calls[k].op = "list"

\* what execute_tools leaves in final_response when it returns
ExecuteValue ==
    IF ~Truthy(actions)
    THEN <<"No specific actions were identified from your request. Please try again with a clearer request.">>
    ELSE JoinWith(responses, "\n\n")

C29_RecipientIsFirstAddress ==
    /\ \A i \in 1..Len(responses) :
          (Dispatch(actions.items[i]) = "email" /\ ~HasEmailAddress(query)) =>
              /\ responses[i][1] \in FailureLines
              /\ \A k \in CallsOf(i) : calls[k].op \notin {"getProfile", "send"}
    /\ \A j \in 1..Len(mails) :
          LET p == MinOf({i \in 1..Len(query) : IsAddress(query[i])})
          IN  mails[j].to = query[p].w

\* two addresses in the query, the message was sent to the first
C29_Witness ==
    /\ query = <<W("send"), W("email"), W("to"), W(OtherAddress), W(Address)>>
    /\ mails # <<>> /\ mails[1].to = OtherAddress
    /\ \E k \in CallsOf(Len(responses)) : calls[k].op = "send" /\ calls[k].out = "ok"

\* the 24-hour hour of <h> am/pm
Resolved(hh, mer) == (hh % 12) + (IF mer = "pm" THEN 12 ELSE 0)

\* C30: in the fallback parser the hours of "at <h> am/pm" and of "from <h>
\* am/pm to <h> am/pm", h in 1..12, resolve to (h mod 12) + 12 for pm: the
\* event starts (and for a range, ends) at that hour.
C30_TwelveHourClock ==
    \A j \in 1..Len(drafts) :
        drafts[j].path = "fallback" =>
            IF RangeMatches(query) # {}
            THEN LET i == MinOf(RangeMatches(query))
                 IN  (query[i + 1].h \in 1..12 /\ query[i + 4].h \in 1..12) =>
                        /\ (drafts[j].start % 1440) \div 60 = Resolved(query[i + 1].h, query[i + 2].w)
                        /\ (drafts[j].end % 1440) \div 60 = Resolved(query[i + 4].h, query[i + 5].w)
            ELSE IF AtMatches(query) # {}
            THEN LET i == MinOf(AtMatches(query))
                 IN  query[i + 1].h \in 1..12 =>
                        (drafts[j].start % 1440) \div 60 = Resolved(query[i + 1].h, query[i + 2].w)
            ELSE TRUE

====
